---- MODULE Spec2Model ----
(***************************************************************************)
(* RomanianMorphemeFST (src/FST.py): the rule tables, the prefix and the   *)
(* suffix matcher, decompose and _remove_duplicates.                       *)
(*                                                                         *)
(* A word is a sequence of characters; a character is a one-letter string. *)
(* The Romanian letters outside ASCII are written as two-sign tokens:      *)
(*   "a~" a-breve (U+0103)   "a^" a-circumflex (U+00E2)                    *)
(*   "i^" i-circumflex (U+00EE)   "t," t-comma (U+021B)                    *)
(*   "s," s-comma (U+0219)                                                 *)
(* and their capitals as "A~", "A^", "I^", "T,", "S,".  Every token is one *)
(* character of the Python string, so lengths, prefixes and suffixes are   *)
(* those of the Python strings.                                            *)
(***************************************************************************)
EXTENDS Naturals, Sequences, FiniteSets, TLC

VARIABLES
    order,               \* per suffix table, the iteration orders of its allomorph
                         \* sets once the call has gone through them, <<>> before
    pc,                  \* position inside decompose, "idle" before the call
    input,               \* the word argument of decompose, as passed
    pos,                 \* the pos argument of decompose
    word,                \* local variable word (line 149)
    prefix_results,      \* local variable prefix_results (line 153)
    idx,                 \* position of the for loop of line 156
    ending_results,      \* local variable ending_results (line 162)
    plural_results,      \* plural_results (line 166), one per ending hypothesis
    all_decompositions,  \* local variable all_decompositions (lines 150-212)
    result,              \* the returned list (line 215)
    error,               \* the exception that left decompose, or "none"
    rpc,                 \* matcher call: idle / running / returned / raised
    table,               \* matcher call: the table its loops go through
    arg,                 \* matcher call: the word of the outermost call
    items,               \* matcher call: the (allomorph, rule) pairs its loops visit
    stack,               \* matcher call: the frames of the recursion
    retval               \* matcher call: what the outermost call returned

decompVars == <<pc, input, pos, word, prefix_results, idx, ending_results,
                plural_results, all_decompositions, result, error>>

matcherVars == <<rpc, table, arg, items, stack, retval>>

vars == <<order, decompVars, matcherVars>>

-----------------------------------------------------------------------------
(* Bounds of the model. *)

\* longest word enumerated over Alphabet
MaxLen == 3

\* characters of the enumerated words
Alphabet == {"l", "u", "t", "x", "A"}

-----------------------------------------------------------------------------
(* Strings. *)

\* the characters of an ASCII string literal, as a word
W(s) == [i \in 1..Len(s) |-> SubSeq(s, i, i)]

\* str.lower() on one character: the capitals that can occur in the model
UpperToLower ==
    ("A" :> "a") @@ ("B" :> "b") @@ ("C" :> "c") @@ ("D" :> "d") @@
    ("E" :> "e") @@ ("F" :> "f") @@ ("G" :> "g") @@ ("H" :> "h") @@
    ("I" :> "i") @@ ("J" :> "j") @@ ("K" :> "k") @@ ("L" :> "l") @@
    ("M" :> "m") @@ ("N" :> "n") @@ ("O" :> "o") @@ ("P" :> "p") @@
    ("Q" :> "q") @@ ("R" :> "r") @@ ("S" :> "s") @@ ("T" :> "t") @@
    ("U" :> "u") @@ ("V" :> "v") @@ ("W" :> "w") @@ ("X" :> "x") @@
    ("Y" :> "y") @@ ("Z" :> "z") @@
    ("A~" :> "a~") @@ ("A^" :> "a^") @@ ("I^" :> "i^") @@
    ("T," :> "t,") @@ ("S," :> "s,")

LowerChar(c) == IF c \in DOMAIN UpperToLower THEN UpperToLower[c] ELSE c

\* word.lower()
Lower(w) == [i \in 1..Len(w) |-> LowerChar(w[i])]

\* word.startswith(allomorph)
StartsWith(w, a) == Len(a) <= Len(w) /\ SubSeq(w, 1, Len(a)) = a

\* a mutant of EndsWith: the compared window lies one character too far left
EndsWithShifted(w, a) ==
    Len(a) + 1 <= Len(w) /\ SubSeq(w, Len(w) - Len(a), Len(w) - 1) = a

\* word.endswith(allomorph)
EndsWith(w, a) == Len(a) <= Len(w) /\ SubSeq(w, Len(w) - Len(a) + 1, Len(w)) = a

\* word[len(allomorph):]
AfterPrefix(w, a) == SubSeq(w, Len(a) + 1, Len(w))

\* word[:-len(allomorph)]  (word[:-0] is word[:0], the empty string)
BeforeSuffix(w, a) ==
    IF Len(a) = 0 \/ Len(a) > Len(w) THEN <<>> ELSE SubSeq(w, 1, Len(w) - Len(a))

-----------------------------------------------------------------------------
(* The rule tables (RomanianMorphemeFST.__init__). *)

\* MorphemeRule(category, meaning, allomorphs)
MorphemeRule(category, meaning, allomorphs) ==
    [category |-> category, meaning |-> meaning, allomorphs |-> allomorphs]

\* One entry of a table: the dict key, the rule's fields, and its allomorph
\* set written as the sequence of the set literal's elements.
Entry(key, category, meaning, allos) ==
    [key |-> key, category |-> category, meaning |-> meaning, allos |-> allos]

\* self.prefixes, in insertion order
prefixes == <<
    Entry(<<"r","a~","s">>, "prefix", "again/against", << <<"r","a~","s">>, <<"r","a~","z">> >>),
    Entry(<<"i^","n">>, "prefix", "in/into", << <<"i^","n">>, <<"i^","m">> >>),
    Entry(W("des"), "prefix", "un/reverse", << W("des"), W("dez") >>),
    Entry(W("pre"), "prefix", "pre/before", << W("pre") >>),
    Entry(W("ne"), "prefix", "negation", << W("ne") >>),
    Entry(W("sub"), "prefix", "under", << W("sub"), W("sup") >>),
    Entry(W("supra"), "prefix", "above", << W("supra") >>),
    Entry(W("ante"), "prefix", "before", << W("ante") >>),
    Entry(W("post"), "prefix", "after", << W("post") >>),
    Entry(W("pseudo"), "prefix", "fake", << W("pseudo") >>),
    Entry(W("sin"), "prefix", "together", << W("sin"), W("sim") >>) >>

\* self.noun_suffixes; the sets of 'ie' and 'ar' hold ONE string each,
\* 'ie, iune' and 'ar, ar~' (the comma and the blank are inside the quotes)
noun_suffixes == <<
    Entry(W("tor"), "suffix", "agent", << W("tor"), W("toare") >>),
    Entry(<<"t,","i","e">>, "suffix", "action/result", << <<"t,","i","e">>, <<"t,","i","i">> >>),
    Entry(W("ime"), "suffix", "collective", << W("ime") >>),
    Entry(<<"i","t,","a~">>, "suffix", "diminutive", << <<"i","t,","a~">> >>),
    Entry(<<"t","u","r","a~">>, "suffix", "action result", << <<"t","u","r","a~">> >>),
    Entry(W("re"), "suffix", "action result, long infinitive", << W("re") >>),
    Entry(W("ie"), "suffix", "action result", << W("ie, iune") >>),
    Entry(W("ar"), "suffix", "action taker/object of action", << W("ar, ar") \o <<"a~">> >>) >>

\* self.verb_suffixes
verb_suffixes == <<
    Entry(W("esc"), "suffix", "present.1sg", << W("esc") >>),
    Entry(<<"e","a","z","a~">>, "suffix", "present.3sg", << <<"e","a","z","a~">> >>),
    Entry(W("at"), "suffix", "participle", << W("at"), W("t") >>),
    Entry(<<"a^","n","d">>, "suffix", "gerund", << <<"a^","n","d">>, W("ind") >> ) >>

\* self.plural_suffixes
plural_suffixes == <<
    Entry(W("i"), "suffix", "plural", << W("i") >>),
    Entry(W("uri"), "suffix", "plural", << W("uri") >>),
    Entry(W("e"), "suffix", "plural", << W("e") >>) >>

\* self.noun_endings
noun_endings == <<
    Entry(W("ul"), "ending", "def.masc.sg", << W("ul"), W("l"), W("u") >>),
    Entry(W("a"), "ending", "def.fem.sg", << W("a") >>),
    Entry(W("lui"), "ending", "gen/dat.masc.sg", << W("lui") >>),
    Entry(W("ei"), "ending", "gen/dat.fem.sg", << W("ei") >>),
    Entry(W("lor"), "ending", "gen/dat.pl", << W("lor") >>) >>

Range(s) == {s[i] : i \in DOMAIN s}

\* the MorphemeRule object of a table entry
RuleOf(e) == MorphemeRule(e.category, e.meaning, Range(e.allos))

\* The iteration orders of one set of n strings.  Python iterates a set in
\* hash order and str hashes are salted per process, so the order of
\* `for allomorph in rule.allomorphs` is any permutation of the set; it is
\* the same one every time the process iterates that set, and the order of
\* one set says nothing about the order of another.
Orders(n) ==
    {o \in [1..n -> 1..n] : \A i, j \in 1..n : i # j => o[i] # o[j]}

RECURSIVE TableOrders(_)
\* the iteration orders of a table: one order per allomorph set, each set
\* ordered on its own
TableOrders(dict) ==
    IF dict = <<>> THEN {<<>>}
    ELSE {<<o>> \o rest : o \in Orders(Len(Head(dict).allos)),
                          rest \in TableOrders(Tail(dict))}

\* `for allomorph in rule.allomorphs`, under an iteration order of the set
Iterate(e, o) == [i \in 1..Len(e.allos) |-> e.allos[o[i]]]

RECURSIVE Flatten(_)
\* the concatenation of the sequences of ss, in order: what a loop that
\* appends to one list builds
Flatten(ss) ==
    IF ss = <<>> THEN <<>> ELSE Head(ss) \o Flatten(Tail(ss))

\* `for key, rule in dict.items(): for allomorph in rule.allomorphs`:
\* the (allomorph, rule) pairs in the order the two loops visit them, the
\* keys in insertion order and the set of entry i in its order o[i]
IterPairs(dict, o) ==
    LET pairsOf(i) ==
            [j \in 1..Len(dict[i].allos) |->
                <<Iterate(dict[i], o[i])[j], RuleOf(dict[i])>>]
    IN  Flatten([i \in 1..Len(dict) |-> pairsOf(i)])

-----------------------------------------------------------------------------
(* The matchers. *)

\* what a call ends with: a returned value or a raised exception
Returned(v) == [raised |-> FALSE, exc |-> "none", value |-> v]
Raised(e) == [raised |-> TRUE, exc |-> e, value |-> <<>>]

\* self._find_prefix_matches_from_start (line 102): the class defines no
\* such attribute, so evaluating it raises AttributeError before any call
find_prefix_matches_from_start(remaining) == Raised("AttributeError")

\* _find_prefix_matches(word).  The first allomorph that word starts with
\* reaches line 102, whose exception leaves the method; without one the
\* loops end with matches empty and line 112 returns [([], word)].
find_prefix_matches(w, o) ==
    LET pairs == IterPairs(prefixes, o)
        RECURSIVE loop(_, _)
        loop(k, matches) ==
            IF k > Len(pairs)
            THEN Returned(IF matches # <<>> THEN matches ELSE << << <<>>, w >> >>)
            ELSE LET allomorph == pairs[k][1]
                     rule == pairs[k][2]
                 IN  IF StartsWith(w, allomorph)
                     THEN LET remaining == AfterPrefix(w, allomorph)
                              next == find_prefix_matches_from_start(remaining)
                              current_match == << <<allomorph, rule>> >>
                              combined == [j \in 1..Len(next.value) |->
                                  <<current_match \o next.value[j][1], next.value[j][2]>>]
                          IN  IF next.raised THEN next
                              ELSE loop(k + 1, (matches \o combined)
                                               \o << <<current_match, remaining>> >>)
                     ELSE loop(k + 1, matches)
    IN  loop(1, <<>>)

\* current_match + next_match_list (line 134)
Combine(current_match, next_match_list) == current_match \o next_match_list

\* matches if matches else [([], word)]  (line 138)
EmptyHypothesis(matches, w) == IF matches # <<>> THEN matches ELSE << << <<>>, w >> >>

RECURSIVE find_suffix_matches(_, _, _)
\* _find_suffix_matches(word, suffix_dict): a list of (morphemes, remaining)
find_suffix_matches(w, suffix_dict, o) ==
    LET pairs == IterPairs(suffix_dict, o)
        RECURSIVE loop(_, _)
        loop(k, matches) ==
            IF k > Len(pairs)
            THEN EmptyHypothesis(matches, w)
            ELSE LET allomorph == pairs[k][1]
                     rule == pairs[k][2]
                 IN  IF EndsWith(w, allomorph)
                     THEN LET remaining == BeforeSuffix(w, allomorph)
                              next_matches == find_suffix_matches(remaining, suffix_dict, o)
                              current_match == << <<allomorph, rule>> >>
                              combined == [j \in 1..Len(next_matches) |->
                                  <<Combine(current_match, next_matches[j][1]),
                                    next_matches[j][2]>>]
                          IN  loop(k + 1, (matches \o combined)
                                          \o << <<current_match, remaining>> >>)
                     ELSE loop(k + 1, matches)
    IN  loop(1, <<>>)

-----------------------------------------------------------------------------
(* decompose and _remove_duplicates. *)

\* [(remaining, MorphemeRule('root', 'root', {remaining}))]
RootMorpheme(remaining) == << <<remaining, MorphemeRule("root", "root", {remaining})>> >>

\* `if remaining:` (lines 174 and 195)
HasRoot(remaining) == remaining # <<>>

\* the body of the loop of line 156 for pos == 'n' (lines 162-185): the
\* decompositions it appends, in order; o gives each table its set orders
NounDecompositions(hyp, o) ==
    LET prefix_morphemes == hyp[1]
        after_prefixes == hyp[2]
        ofEnding(e) ==
            LET ofPlural(p) ==
                    LET ofSuffix(n) ==
                            IF HasRoot(n[2])
                            THEN << prefix_morphemes \o RootMorpheme(n[2])
                                    \o n[1] \o p[1] \o e[1] >>
                            ELSE <<>>
                        suffix_results ==
                            find_suffix_matches(p[2], noun_suffixes, o["noun_suffixes"])
                    IN  Flatten([i \in 1..Len(suffix_results) |->
                                    ofSuffix(suffix_results[i])])
                plurals ==
                    find_suffix_matches(e[2], plural_suffixes, o["plural_suffixes"])
            IN  Flatten([i \in 1..Len(plurals) |-> ofPlural(plurals[i])])
        endings ==
            find_suffix_matches(after_prefixes, noun_endings, o["noun_endings"])
    IN  Flatten([i \in 1..Len(endings) |-> ofEnding(endings[i])])

\* the body of the loop of line 156 for pos == 'v' (lines 191-204)
VerbDecompositions(hyp, o) ==
    LET prefix_morphemes == hyp[1]
        after_prefixes == hyp[2]
        ofSuffix(v) ==
            IF HasRoot(v[2])
            THEN << prefix_morphemes \o RootMorpheme(v[2]) \o v[1] >>
            ELSE <<>>
        suffix_results ==
            find_suffix_matches(after_prefixes, verb_suffixes, o["verb_suffixes"])
    IN  Flatten([i \in 1..Len(suffix_results) |-> ofSuffix(suffix_results[i])])

\* the list of (morpheme, rule.category, rule.meaning, rule.allomorphs) whose
\* str() is decomp_str (lines 79-80).  str() of such a list is one-to-one:
\* strings are quoted and escaped, and a rule's set is always the same
\* object (or a root's one-element set), printed in the same order.
DecompKey(decomp) ==
    [i \in 1..Len(decomp) |->
        <<decomp[i][1], decomp[i][2].category, decomp[i][2].meaning,
          decomp[i][2].allomorphs>>]

\* a mutant of remove_duplicates: the seen set is never filled
RemoveNothing(decompositions) == decompositions

\* _remove_duplicates(decompositions)
remove_duplicates(decompositions) ==
    LET RECURSIVE loop(_, _, _)
        loop(k, seen, unique_decompositions) ==
            IF k > Len(decompositions) THEN unique_decompositions
            ELSE LET decomp == decompositions[k]
                     decomp_str == DecompKey(decomp)
                 IN  IF decomp_str \notin seen
                     THEN loop(k + 1, seen \cup {decomp_str},
                               Append(unique_decompositions, decomp))
                     ELSE loop(k + 1, seen, unique_decompositions)
    IN  loop(1, {}, <<>>)

-----------------------------------------------------------------------------
(* The inputs. *)

\* the words of test_morpheme_analyzer (lines 219-228), and three more:
\* an ending only, a noun suffix only, a prefix with a verb suffix
ScenarioWords == {
    <<"l","u","c","r","a~","t","o","r">>,
    <<"n","e","l","u","c","r","a^","n","d">>,
    <<"f","a~","c","a~","t","o","r">>,
    W("scriitor"),
    <<"c","i","t","e","s,","t","e">>,
    <<"p","r","e","f","a~","c","u","t">>,
    <<"l","u","c","r","a~","r","i","l","e">>,
    W("descoperire"),
    W("casa"),
    W("lucrare"),
    W("next") }

\* every word over Alphabet of at most MaxLen characters, the empty one too
BoundedWords == UNION {[1..n -> Alphabet] : n \in 0..MaxLen}

Words == ScenarioWords \cup BoundedWords

\* 'n' and 'v' are the supported values; pos is compared as passed
PosValues == {"n", "v", "x", "N"}

-----------------------------------------------------------------------------
(* The analyzer as a state machine.  After construction nothing runs; then *)
(* decompose is called, or one of the matchers is.                         *)

\* the strings a matcher is called with are lower-cased (line 149)
MatcherWords == {Lower(w) : w \in Words}

TableNames == {"prefixes", "noun_endings", "plural_suffixes",
               "noun_suffixes", "verb_suffixes"}

TableOf(name) ==
    CASE name = "prefixes" -> prefixes
      [] name = "noun_endings" -> noun_endings
      [] name = "plural_suffixes" -> plural_suffixes
      [] name = "noun_suffixes" -> noun_suffixes
      [] name = "verb_suffixes" -> verb_suffixes

\* the iteration orders of every table
OrdersOf == [t \in TableNames |-> TableOrders(TableOf(t))]

\* the lists of (allomorph, rule) pairs the two loops over a table can
\* visit, one per iteration order of its sets
PairsOf == [t \in TableNames |-> {IterPairs(TableOf(t), o) : o \in OrdersOf[t]}]

SuffixTables == TableNames \ {"prefixes"}

\* the orders of the sets of a suffix table the call may go through them
\* in: the order it went through them before, any order the first time
DrawOrders(name) ==
    IF order[name] # <<>> THEN {order[name]} ELSE OrdersOf[name]

\* The process's hash salt fixes the order of every set before anything
\* runs, but an order shows only when the set is iterated: it is drawn at
\* the first iteration and kept.  A call goes through self.prefixes once
\* (line 153; line 102 never recurses), so its order is drawn where it is
\* used and not kept.
Init ==
    /\ order = [t \in SuffixTables |-> <<>>]
    /\ pc = "idle"
    /\ input = <<>>
    /\ pos = "n"
    /\ word = <<>>
    /\ prefix_results = <<>>
    /\ idx = 0
    /\ ending_results = <<>>
    /\ plural_results = <<>>
    /\ all_decompositions = <<>>
    /\ result = <<>>
    /\ error = "none"
    /\ rpc = "idle"
    /\ table = "none"
    /\ arg = <<>>
    /\ items = <<>>
    /\ stack = <<>>
    /\ retval = <<>>

\* decompose(word, pos) is called
Call ==
    /\ pc = "idle"
    /\ rpc = "idle"
    /\ input' \in Words
    /\ pos' \in PosValues
    /\ word' = input'
    /\ pc' = "start"
    /\ UNCHANGED <<order, prefix_results, idx, ending_results, plural_results,
                   all_decompositions, result, error>>
    /\ UNCHANGED matcherVars

\* lines 149-150
LowerCase ==
    /\ pc = "start"
    /\ word' = Lower(word)
    /\ all_decompositions' = <<>>
    /\ pc' = "find_prefixes"
    /\ UNCHANGED <<order, input, pos, prefix_results, idx, ending_results,
                   plural_results, result, error>>
    /\ UNCHANGED matcherVars

\* line 153, the call returns
FindPrefixes ==
    /\ pc = "find_prefixes"
    /\ \E o \in OrdersOf["prefixes"] :
           /\ ~find_prefix_matches(word, o).raised
           /\ prefix_results' = find_prefix_matches(word, o).value
    /\ idx' = 1
    /\ pc' = "loop"
    /\ UNCHANGED <<order, input, pos, word, ending_results, plural_results,
                   all_decompositions, result, error>>
    /\ UNCHANGED matcherVars

\* line 153, the call raises: decompose has no handler, the exception leaves it
FindPrefixesRaises ==
    /\ pc = "find_prefixes"
    /\ \E o \in OrdersOf["prefixes"] :
           /\ find_prefix_matches(word, o).raised
           /\ error' = find_prefix_matches(word, o).exc
    /\ pc' = "raised"
    /\ UNCHANGED <<order, input, pos, word, prefix_results, idx, ending_results,
                   plural_results, all_decompositions, result>>
    /\ UNCHANGED matcherVars

\* one pass of the loop of line 156 with pos == 'n' (lines 158-185)
NounBranch ==
    /\ pc = "loop"
    /\ idx <= Len(prefix_results)
    /\ pos = "n"
    /\ order' \in {[order EXCEPT !["noun_endings"] = e,
                                  !["plural_suffixes"] = p,
                                  !["noun_suffixes"] = n] :
                        e \in DrawOrders("noun_endings"),
                        p \in DrawOrders("plural_suffixes"),
                        n \in DrawOrders("noun_suffixes")}
    /\ ending_results' =
           find_suffix_matches(prefix_results[idx][2], noun_endings,
                               order'["noun_endings"])
    /\ plural_results' =
           [i \in 1..Len(ending_results') |->
               find_suffix_matches(ending_results'[i][2], plural_suffixes,
                                   order'["plural_suffixes"])]
    /\ all_decompositions' =
           all_decompositions \o NounDecompositions(prefix_results[idx], order')
    /\ idx' = idx + 1
    /\ UNCHANGED <<pc, input, pos, word, prefix_results, result, error>>
    /\ UNCHANGED matcherVars

\* one pass of the loop of line 156 with pos == 'v' (lines 187-204)
VerbBranch ==
    /\ pc = "loop"
    /\ idx <= Len(prefix_results)
    /\ pos # "n"
    /\ pos = "v"
    /\ order' \in {[order EXCEPT !["verb_suffixes"] = v] :
                        v \in DrawOrders("verb_suffixes")}
    /\ all_decompositions' =
           all_decompositions \o VerbDecompositions(prefix_results[idx], order')
    /\ idx' = idx + 1
    /\ UNCHANGED <<pc, input, pos, word, prefix_results, ending_results,
                   plural_results, result, error>>
    /\ UNCHANGED matcherVars

\* one pass of the loop of line 156 with any other pos (lines 206-207)
Unsupported ==
    /\ pc = "loop"
    /\ idx <= Len(prefix_results)
    /\ pos # "n"
    /\ pos # "v"
    /\ error' = "ValueError"
    /\ pc' = "raised"
    /\ UNCHANGED <<order, input, pos, word, prefix_results, idx, ending_results,
                   plural_results, all_decompositions, result>>
    /\ UNCHANGED matcherVars

\* the loop is over and found nothing: lines 209-212
Fallback ==
    /\ pc = "loop"
    /\ idx > Len(prefix_results)
    /\ all_decompositions = <<>>
    /\ all_decompositions' = Append(all_decompositions, RootMorpheme(word))
    /\ pc' = "dedupe"
    /\ UNCHANGED <<order, input, pos, word, prefix_results, idx, ending_results,
                   plural_results, result, error>>
    /\ UNCHANGED matcherVars

\* the loop is over and found something: line 209 is false
NoFallback ==
    /\ pc = "loop"
    /\ idx > Len(prefix_results)
    /\ all_decompositions # <<>>
    /\ pc' = "dedupe"
    /\ UNCHANGED <<order, input, pos, word, prefix_results, idx, ending_results,
                   plural_results, all_decompositions, result, error>>
    /\ UNCHANGED matcherVars

\* lines 214-215; all_decompositions keeps the list that was passed in
Return ==
    /\ pc = "dedupe"
    /\ result' = remove_duplicates(all_decompositions)
    /\ pc' = "returned"
    /\ UNCHANGED <<order, input, pos, word, prefix_results, idx, ending_results,
                   plural_results, all_decompositions, error>>
    /\ UNCHANGED matcherVars

-----------------------------------------------------------------------------
(* One matcher call, step by step: the recursion of _find_prefix_matches   *)
(* and _find_suffix_matches as a stack of frames.  A frame holds the call's *)
(* argument word, the position k of its loops over the (allomorph, rule)   *)
(* pairs, and its local list matches.  In a frame below the top, k is the  *)
(* pair whose recursive call (line 128) is running.                        *)

\* the test of line 99 (prefixes) or line 125 (suffix tables)
Hit(name, w, allomorph) ==
    IF name = "prefixes" THEN StartsWith(w, allomorph) ELSE EndsWith(w, allomorph)

Frame(w) == [word |-> w, k |-> 1, matches |-> <<>>]

Top == stack[Len(stack)]

\* the first pair at or after k that the loops of the top frame stop at
NextHit ==
    LET hits == {j \in Top.k..Len(items) : Hit(table, Top.word, items[j][1])}
    IN  IF hits = {} THEN Len(items) + 1
        ELSE CHOOSE j \in hits : \A i \in hits : j <= i

\* no frame beyond this depth is pushed; the deepest recursion of the code
\* is one frame per character plus the outermost, far below it
MaxDepth == 16

\* _find_prefix_matches(w) or _find_suffix_matches(w, table) is called
MatcherCall ==
    /\ pc = "idle"
    /\ rpc = "idle"
    /\ arg' \in MatcherWords
    /\ table' \in TableNames
    /\ items' \in PairsOf[table']
    /\ stack' = << Frame(arg') >>
    /\ rpc' = "running"
    /\ UNCHANGED <<order, retval>>
    /\ UNCHANGED decompVars

\* a mutant of Recurse: line 128 passes word on instead of remaining
RecurseOnWord ==
    /\ rpc = "running"
    /\ table # "prefixes"
    /\ NextHit <= Len(items)
    /\ Len(stack) < MaxDepth
    /\ stack' = Append([stack EXCEPT ![Len(stack)].k = NextHit], Frame(Top.word))
    /\ UNCHANGED <<order, rpc, table, arg, items, retval>>
    /\ UNCHANGED decompVars

\* lines 123-128: the loops reach an allomorph the word ends with, and the
\* method calls itself on the remaining string
Recurse ==
    /\ rpc = "running"
    /\ table # "prefixes"
    /\ NextHit <= Len(items)
    /\ Len(stack) < MaxDepth
    /\ stack' = Append([stack EXCEPT ![Len(stack)].k = NextHit],
                       Frame(BeforeSuffix(Top.word, items[NextHit][1])))
    /\ UNCHANGED <<order, rpc, table, arg, items, retval>>
    /\ UNCHANGED decompVars

\* lines 97-102: the loops reach an allomorph the word starts with; line 102
\* raises and the exception leaves every frame
MatcherRaises ==
    /\ rpc = "running"
    /\ table = "prefixes"
    /\ NextHit <= Len(items)
    /\ find_prefix_matches_from_start(AfterPrefix(Top.word, items[NextHit][1])).raised
    /\ stack' = <<>>
    /\ rpc' = "raised"
    /\ UNCHANGED <<order, table, arg, items, retval>>
    /\ UNCHANGED decompVars

\* line 138 in a recursive call: the caller goes on at lines 131-136 with
\* what the call returned
ReturnInner ==
    /\ rpc = "running"
    /\ NextHit > Len(items)
    /\ Len(stack) > 1
    /\ LET caller == stack[Len(stack) - 1]
           next_matches == EmptyHypothesis(Top.matches, Top.word)
           current_match == << items[caller.k] >>
           remaining == Top.word
           combined == [j \in 1..Len(next_matches) |->
               <<Combine(current_match, next_matches[j][1]), next_matches[j][2]>>]
       IN  stack' = [SubSeq(stack, 1, Len(stack) - 1) EXCEPT
               ![Len(stack) - 1] =
                   [word |-> caller.word,
                    k |-> caller.k + 1,
                    matches |-> (caller.matches \o combined)
                                \o << <<current_match, remaining>> >>]]
    /\ UNCHANGED <<order, rpc, table, arg, items, retval>>
    /\ UNCHANGED decompVars

\* line 138 (line 112) in the outermost call
ReturnOuter ==
    /\ rpc = "running"
    /\ NextHit > Len(items)
    /\ Len(stack) = 1
    /\ retval' = EmptyHypothesis(Top.matches, Top.word)
    /\ stack' = <<>>
    /\ rpc' = "returned"
    /\ UNCHANGED <<order, table, arg, items>>
    /\ UNCHANGED decompVars

\* a step of a decompose call
Next ==
    \/ Call
    \/ LowerCase
    \/ FindPrefixes
    \/ FindPrefixesRaises
    \/ NounBranch
    \/ VerbBranch
    \/ Unsupported
    \/ Fallback
    \/ NoFallback
    \/ Return

\* a step of a matcher call
NextMatcher ==
    \/ MatcherCall
    \/ Recurse
    \/ MatcherRaises
    \/ ReturnInner
    \/ ReturnOuter

NextAny ==
    \/ Next
    \/ NextMatcher

\* decompose alone
Spec == Init /\ [][Next]_vars

\* decompose and the matchers.  The code is synchronous and single-threaded:
\* the interpreter runs a call to its end, so a matcher step that can be
\* taken is taken.
SpecCalls == Init /\ [][NextAny]_vars /\ WF_vars(NextMatcher)

-----------------------------------------------------------------------------
(* The properties. *)

Supported == pos \in {"n", "v"}

Finished == pc \in {"returned", "raised"}

\* the surface forms of a decomposition, concatenated in listed order
Surface(decomp) ==
    Flatten([i \in 1..Len(decomp) |-> decomp[i][1]])

\* every allomorph of a table
AllomorphsOf(dict) == UNION {Range(dict[i].allos) : i \in 1..Len(dict)}

\* the rule of a table that allomorph a belongs to
RuleWith(dict, a) ==
    RuleOf(dict[CHOOSE i \in 1..Len(dict) : a \in Range(dict[i].allos)])

\* the suffix tables decompose goes through for a part of speech
StageAllomorphs(p) ==
    IF p = "n"
    THEN AllomorphsOf(noun_endings) \cup AllomorphsOf(plural_suffixes)
         \cup AllomorphsOf(noun_suffixes)
    ELSE AllomorphsOf(verb_suffixes)

\* no prefix allomorph starts w and no allomorph of pos's tables ends it
NoAffixOn(w) ==
    /\ \A a \in AllomorphsOf(prefixes) : ~StartsWith(w, a)
    /\ \A a \in StageAllomorphs(pos) : ~(Len(a) <= Len(w)
                                         /\ SubSeq(w, Len(w) - Len(a) + 1, Len(w)) = a)

\* C1: every decomposition returned for a supported part of speech spells
\* the lower-cased word: its surface forms, concatenated in listed order,
\* are the lower-cased input.
Exactness ==
    (pc = "returned" /\ Supported) =>
        \A i \in 1..Len(result) : Surface(result[i]) = Lower(input)

\* C2: a call with a non-empty word and a supported part of speech ends by
\* returning a list of at least one decomposition, never by an error.
NonEmptyResults ==
    (Finished /\ input # <<>> /\ Supported) =>
        (pc = "returned" /\ Len(result) >= 1)

\* C3: no returned decomposition holds a root morpheme whose surface form is
\* the empty string, whatever the input word.
RootNeverEmpty ==
    (pc = "returned" /\ Supported) =>
        \A i \in 1..Len(result) : \A j \in 1..Len(result[i]) :
            result[i][j][2].category = "root" => result[i][j][1] # <<>>

\* C4: a call with any part of speech other than 'n' and 'v' ends with the
\* ValueError of line 207, with no other error and with no list.
Rejection ==
    (Finished /\ ~Supported) =>
        (pc = "raised" /\ error = "ValueError" /\ result = <<>>)

\* the positions of the candidates whose key no earlier candidate has
FirstSeen ==
    {i \in 1..Len(all_decompositions) :
        \A j \in 1..(i - 1) :
            DecompKey(all_decompositions[j]) # DecompKey(all_decompositions[i])}

\* C5: the returned list is the list of candidates without those whose key
\* an earlier candidate has: no two results share a key, every key of a
\* candidate is the key of a result, and the results are the first
\* candidates of their keys, in the candidates' order.
Deduplication ==
    pc = "returned" =>
        /\ \A i, j \in 1..Len(result) :
               i # j => DecompKey(result[i]) # DecompKey(result[j])
        /\ {DecompKey(result[i]) : i \in 1..Len(result)}
               = {DecompKey(all_decompositions[i]) : i \in 1..Len(all_decompositions)}
        /\ Len(result) = Cardinality(FirstSeen)
        /\ \A n \in 1..Len(result) :
               \E i \in FirstSeen :
                   /\ Cardinality({j \in FirstSeen : j <= i}) = n
                   /\ result[n] = all_decompositions[i]

\* C5, its case: duplicates were dropped and more than one key was kept
DeduplicationCase ==
    /\ pc = "returned"
    /\ Len(result) >= 2
    /\ Len(result) < Len(all_decompositions)

\* C6: for a word p + r + s, p a prefix allomorph, s a verb-suffix allomorph
\* and r non-empty, decompose(w, 'v') returns a list that holds
\* [(p, rule of p), (r, root), (s, rule of s)].
VerbPrefixSuffix ==
    (Finished /\ pos = "v") =>
        \A p \in AllomorphsOf(prefixes) : \A s \in AllomorphsOf(verb_suffixes) :
            (/\ StartsWith(input, p)
             /\ EndsWith(input, s)
             /\ Len(input) > Len(p) + Len(s)) =>
                /\ pc = "returned"
                /\ \E i \in 1..Len(result) :
                       result[i] =
                           << <<p, RuleWith(prefixes, p)>> >>
                           \o RootMorpheme(SubSeq(input, Len(p) + 1, Len(input) - Len(s)))
                           \o << <<s, RuleWith(verb_suffixes, s)>> >>

\* C7: for a word r + s, s a noun-suffix allomorph, r non-empty and no
\* prefix allomorph at the start of the word, decompose(w, 'n') returns a
\* list that holds [(r, root), (s, rule of s)].
NounSuffixOnly ==
    (Finished /\ pos = "n") =>
        \A s \in AllomorphsOf(noun_suffixes) :
            (/\ EndsWith(input, s)
             /\ Len(input) > Len(s)
             /\ \A p \in AllomorphsOf(prefixes) : ~StartsWith(input, p)) =>
                /\ pc = "returned"
                /\ \E i \in 1..Len(result) :
                       result[i] =
                           RootMorpheme(SubSeq(input, 1, Len(input) - Len(s)))
                           \o << <<s, RuleWith(noun_suffixes, s)>> >>

\* C8 as stated: when no prefix allomorph starts the word as passed and no
\* allomorph of the part of speech's suffix tables ends it, the call returns
\* the lower-cased word as a single root morpheme and nothing else.
FallbackOnLiteralWord ==
    (Finished /\ Supported /\ input # <<>> /\ NoAffixOn(input)) =>
        /\ pc = "returned"
        /\ result = << << <<Lower(input),
                            [category |-> "root", meaning |-> "root",
                             allomorphs |-> {Lower(input)}]>> >> >>

\* C8 amended: when no prefix allomorph starts the LOWER-CASED word and no
\* allomorph of the part of speech's suffix tables ends the lower-cased
\* word, the call returns the lower-cased word as a single root morpheme and
\* nothing else.
FallbackOnLoweredWord ==
    (Finished /\ Supported /\ input # <<>> /\ NoAffixOn(Lower(input))) =>
        /\ pc = "returned"
        /\ result = << << <<Lower(input),
                            [category |-> "root", meaning |-> "root",
                             allomorphs |-> {Lower(input)}]>> >> >>

\* C8, its case: a word with a capital returned with no affix on its
\* lower-cased form
FallbackCase ==
    /\ pc = "returned"
    /\ Supported
    /\ input # <<>>
    /\ input # Lower(input)
    /\ NoAffixOn(Lower(input))
    /\ Len(result) = 1

\* the hypothesis that nothing was stripped from w
HasEmptyHypothesis(hyps, w) == \E i \in 1..Len(hyps) : hyps[i] = << <<>>, w >>

\* C9: in the noun variant the hypotheses of the Ending stage and those of
\* the Plural stage always hold the empty hypothesis (nothing stripped, the
\* stage's whole input as remainder), also when an allomorph matched.
OptionalStagePolicy ==
    (pos = "n" /\ pc \in {"loop", "dedupe", "returned"} /\ idx = 2) =>
        /\ HasEmptyHypothesis(ending_results, prefix_results[1][2])
        /\ \A i \in 1..Len(ending_results) :
               HasEmptyHypothesis(plural_results[i], ending_results[i][2])

\* every recursive call got a string strictly shorter than its caller's
StackShrinks ==
    \A i \in 2..Len(stack) : Len(stack[i].word) < Len(stack[i - 1].word)

\* the recursion is never deeper than the length of the word plus one
DepthBounded == Len(stack) <= Len(arg) + 1

\* how far a decompose call is from its end
PcRank ==
    CASE pc = "start" -> 4
      [] pc = "find_prefixes" -> 3
      [] pc = "loop" -> 2
      [] pc = "dedupe" -> 1
      [] OTHER -> 0

\* a step of a running decompose call brings it nearer to its end: it moves
\* on to a later line, or stays in the loop of line 156 with fewer passes of
\* the same list left
DecomposeAdvances ==
    pc # "idle" =>
        \/ PcRank' < PcRank
        \/ /\ pc = "loop" /\ pc' = "loop"
           /\ prefix_results' = prefix_results
           /\ idx < idx'
           /\ idx' <= Len(prefix_results) + 1

\* C10: a call finishes.  Every recursive matcher call gets a strictly
\* shorter string, the recursion is never deeper than the length of the
\* word plus one, a running matcher call ends by returning or raising, and
\* every step of decompose brings it nearer to its end.
Termination ==
    /\ [](StackShrinks /\ DepthBounded)
    /\ (rpc = "running") ~> (rpc \in {"returned", "raised"})
    /\ [][DecomposeAdvances]_vars

\* C10, its case: a recursive call made a recursive call
TerminationCase ==
    /\ rpc = "running"
    /\ Len(stack) >= 3

====
